---- MODULE Spec2Model ----
(***************************************************************************)
(* Design Pattern Trainer: the Redux game slice (lib/store/gameSlice), the *)
(* localStorage middleware, the Round Controller of the control window and *)
(* the Match Viewer window that mirrors the game through the 'gameState'   *)
(* slot of localStorage.                                                    *)
(*                                                                          *)
(* Nullable values (T | null) are sequences of length 0 or 1, so that a    *)
(* null and a value can be compared.  Objects are records, arrays are      *)
(* sequences.  The control window and the viewer are two browser windows   *)
(* with one Redux store each; they share only localStorage.  Every         *)
(* dispatch writes the slot, so a handler that dispatches twice is two     *)
(* steps: the other window can read the slot between them.                 *)
(***************************************************************************)
EXTENDS Integers, Sequences, FiniteSets, TLC

VARIABLES
    now,          \* the wall clock read by Date.now()
    catalog,      \* the static example catalog
    homeTeams,    \* Home component state `teams` (Team[] | null)
    teamsItem,    \* localStorage item 'teams'
    game,         \* control window: store.getState().game
    ctlPc,        \* control window: position inside the running handler
    slot,         \* localStorage item 'gameState'
    vMounted,     \* viewer window: MatchViewer sync effect is installed
    vPc,          \* viewer window: position inside syncFromLocalStorage
    vDepth,       \* viewer window: nesting depth of syncFromLocalStorage
    vState,       \* viewer window: local `state` of syncFromLocalStorage
    vGame,        \* viewer window: store.getState().game
    argCount,     \* selection call: requiredPatternCount
    argCategory,  \* selection call: categoryFilter
    argExclude,   \* selection call: excludeIds
    selResult,    \* selection call: returned example
    selDone,      \* selection call: has returned
    dispatched,   \* number of actions dispatched straight to the store
    events,       \* windows with a queued 'storage' event for 'gameState'
    setupTeams,   \* TeamSetup component state `teams`
    reloads       \* page loads of the control window after the first

vars == <<now, catalog, homeTeams, teamsItem, game, ctlPc, slot, vMounted,
          vPc, vDepth, vState, vGame, argCount, argCategory, argExclude,
          selResult, selDone, dispatched, events,
          setupTeams, reloads>>

ctlVars == <<homeTeams, teamsItem, game, ctlPc>>
viewerVars == <<vMounted, vPc, vDepth, vState, vGame>>
selVars == <<argCount, argCategory, argExclude, selResult, selDone>>
sideVars == <<selVars, dispatched>>

----------------------------------------------------------------------------
(* Bounds of the model *)

MaxTeams == 2        \* teams entered in the setup form
MaxRound == 3        \* the controller advances while roundNumber < MaxRound
MaxTicks == 1        \* clock ticks
MaxDispatches == 4   \* length of a sequence of actions dispatched directly
MaxReloads == 1      \* page loads of the control window after the first
StackLimit == 2      \* nested syncFromLocalStorage calls the stack holds

Epoch == 1000        \* Date.now() at the start
ClockStep == 1000    \* milliseconds per clock tick

----------------------------------------------------------------------------
(* Values *)

Null == <<>>
Some(v) == <<v>>

Categories == {"creational", "structural", "behavioral"}
CategoryChoices == Categories \cup {"all"}
PatternCounts == {1, 2, 3}

CategoryOf(i) ==
    IF i <= 2 THEN "creational"
    ELSE IF i % 2 = 1 THEN "structural" ELSE "behavioral"

PatternsOf(i) == IF i % 3 = 0 THEN <<1, 2>> ELSE <<1>>

PatternExample(i) ==
    [id |-> i, category |-> CategoryOf(i), solutionPatterns |-> PatternsOf(i)]

\* a catalog with two examples under one filter and filters with none
Catalog == {PatternExample(1), PatternExample(2), PatternExample(3)}

ExampleIds == {e.id : e \in Catalog}

Team(i) == [id |-> i, name |-> i, score |-> 0, color |-> i]

TeamList(k) == [i \in 1..k |-> Team(i)]

\* JavaScript truthiness of a (number | null) and of a (string | null)
TruthyNumber(o) == o # Null /\ o[1] # 0

TruthyString(o) == o # Null /\ o[1] # ""

MsPerSecond == 1000

----------------------------------------------------------------------------
(* gameSlice *)

GameStateKeys ==
    <<"teams", "roundNumber", "usedExampleIds", "currentExample",
      "solutionRevealed", "selectedCategory", "selectedPatternCount",
      "answerHistory", "roundStartTime", "isPaused">>

initialState ==
    [teams |-> <<>>,
     roundNumber |-> 1,
     usedExampleIds |-> <<>>,
     currentExample |-> Null,
     solutionRevealed |-> FALSE,
     selectedCategory |-> Null,
     selectedPatternCount |-> Null,
     answerHistory |-> <<>>,
     roundStartTime |-> Null,
     isPaused |-> FALSE]

\* teams.find(t => t.id === id): index of the first match, 0 if none
FindTeam(teams, id) ==
    IF \E i \in 1..Len(teams) : teams[i].id = id
    THEN CHOOSE i \in 1..Len(teams) :
            /\ teams[i].id = id
            /\ \A j \in 1..(i - 1) : teams[j].id # id
    ELSE 0

setTeams(state, payload) == [state EXCEPT !.teams = payload]

updateTeamScore(state, teamId, points) ==
    LET i == FindTeam(state.teams, teamId) IN
    IF i # 0
    THEN [state EXCEPT !.teams[i].score = @ + points]
    ELSE state

\* setCurrentExample without the roundStartTime assignment
setCurrentExample_noStartTime(state, payload, t) ==
    IF payload # Null
    THEN [state EXCEPT !.currentExample = payload,
                       !.usedExampleIds = Append(@, payload[1].id),
                       !.solutionRevealed = FALSE,
                       !.isPaused = FALSE]
    ELSE [state EXCEPT !.currentExample = payload,
                       !.roundStartTime = Null]

\* setCurrentExample(null) also emptying usedExampleIds
setCurrentExample_clearsUsed(state, payload, t) ==
    IF payload # Null
    THEN [state EXCEPT !.currentExample = payload,
                       !.usedExampleIds = Append(@, payload[1].id),
                       !.roundStartTime = Some(t),
                       !.solutionRevealed = FALSE,
                       !.isPaused = FALSE]
    ELSE [state EXCEPT !.currentExample = payload,
                       !.usedExampleIds = <<>>,
                       !.roundStartTime = Null]

\* setCurrentExample without the push of the id
setCurrentExample_noPush(state, payload, t) ==
    IF payload # Null
    THEN [state EXCEPT !.currentExample = payload,
                       !.roundStartTime = Some(t),
                       !.solutionRevealed = FALSE,
                       !.isPaused = FALSE]
    ELSE [state EXCEPT !.currentExample = payload,
                       !.roundStartTime = Null]

setCurrentExample(state, payload, t) ==
    IF payload # Null
    THEN [state EXCEPT !.currentExample = payload,
                       !.usedExampleIds = Append(@, payload[1].id),
                       !.roundStartTime = Some(t),
                       !.solutionRevealed = FALSE,
                       !.isPaused = FALSE]
    ELSE [state EXCEPT !.currentExample = payload,
                       !.roundStartTime = Null]

\* setSelectedCategory that also clears the pattern count
setSelectedCategory_clearsCount(state, payload) ==
    [state EXCEPT !.selectedCategory = payload,
                  !.selectedPatternCount = Null]

setSelectedCategory(state, payload) ==
    [state EXCEPT !.selectedCategory = payload]

setSelectedPatternCount(state, payload) ==
    [state EXCEPT !.selectedPatternCount = payload]

revealSolution(state) == [state EXCEPT !.solutionRevealed = TRUE]

\* awardPoint that records the round as already advanced
\* awardPoint checking only the team before it adds the point
awardPoint_scoresAnyway(state, payload, t) ==
    LET i == FindTeam(state.teams, payload) IN
    IF i = 0 THEN state
    ELSE LET scored == [state EXCEPT !.teams[i].score = @ + 1] IN
         IF state.currentExample # Null /\ TruthyNumber(state.roundStartTime)
         THEN [scored EXCEPT !.answerHistory =
                Append(@, [roundNumber |-> state.roundNumber,
                           example |-> state.currentExample[1],
                           winnerTeam |-> Some(scored.teams[i]),
                           timestamp |-> t,
                           timeElapsed |->
                               (t - state.roundStartTime[1]) \div MsPerSecond])]
         ELSE scored

\* awardPoint adding two points
awardPoint_addsTwo(state, payload, t) ==
    LET i == FindTeam(state.teams, payload) IN
    IF i # 0 /\ state.currentExample # Null
             /\ TruthyNumber(state.roundStartTime)
    THEN [state EXCEPT
            !.teams[i].score = @ + 2,
            !.answerHistory = Append(@,
                [roundNumber |-> state.roundNumber,
                 example |-> state.currentExample[1],
                 winnerTeam |-> Some([state.teams[i] EXCEPT !.score = @ + 2]),
                 timestamp |-> t,
                 timeElapsed |-> (t - state.roundStartTime[1]) \div MsPerSecond])]
    ELSE state

awardPoint_nextRoundNumber(state, payload, t) ==
    LET i == FindTeam(state.teams, payload) IN
    IF i # 0 /\ state.currentExample # Null /\ TruthyNumber(state.roundStartTime)
    THEN LET scored == [state EXCEPT !.teams[i].score = @ + 1]
             timeElapsed == (t - state.roundStartTime[1]) \div MsPerSecond
         IN [scored EXCEPT !.answerHistory =
                Append(@, [roundNumber |-> state.roundNumber + 1,
                           example |-> state.currentExample[1],
                           winnerTeam |-> Some(scored.teams[i]),
                           timestamp |-> t,
                           timeElapsed |-> timeElapsed])]
    ELSE state

awardPoint(state, payload, t) ==
    LET i == FindTeam(state.teams, payload) IN
    IF i # 0 /\ state.currentExample # Null /\ TruthyNumber(state.roundStartTime)
    THEN LET scored == [state EXCEPT !.teams[i].score = @ + 1]
             timeElapsed == (t - state.roundStartTime[1]) \div MsPerSecond
         IN [scored EXCEPT !.answerHistory =
                Append(@, [roundNumber |-> state.roundNumber,
                           example |-> state.currentExample[1],
                           winnerTeam |-> Some(scored.teams[i]),
                           timestamp |-> t,
                           timeElapsed |-> timeElapsed])]
    ELSE state

\* nextRound keeping the selected category
nextRound_keepsCategory(state) ==
    [state EXCEPT !.roundNumber = @ + 1,
                  !.currentExample = Null,
                  !.selectedPatternCount = Null,
                  !.solutionRevealed = FALSE,
                  !.roundStartTime = Null,
                  !.isPaused = FALSE]

\* nextRound advancing only a round that has an entry in the history
nextRound_onlyAfterAward(state) ==
    [state EXCEPT !.roundNumber =
                      IF \E i \in 1..Len(state.answerHistory) :
                            state.answerHistory[i].roundNumber = @
                      THEN @ + 1 ELSE @,
                  !.currentExample = Null,
                  !.selectedCategory = Null,
                  !.selectedPatternCount = Null,
                  !.solutionRevealed = FALSE,
                  !.roundStartTime = Null,
                  !.isPaused = FALSE]

nextRound(state) ==
    [state EXCEPT !.roundNumber = @ + 1,
                  !.currentExample = Null,
                  !.selectedCategory = Null,
                  !.selectedPatternCount = Null,
                  !.solutionRevealed = FALSE,
                  !.roundStartTime = Null,
                  !.isPaused = FALSE]

togglePause(state) == [state EXCEPT !.isPaused = ~@]

resetGame(state) == initialState

\* hydrate skipping the fields that are null in the snapshot
hydrate_skipsNull(state, payload) ==
    [k \in (DOMAIN state) \cup (DOMAIN payload) |->
        IF k \in DOMAIN payload /\ (k \notin DOMAIN state \/ payload[k] # Null)
        THEN payload[k]
        ELSE state[k]]

\* hydrate adding the snapshot's roundNumber to the state's
hydrate_addsRound(state, payload) ==
    [k \in (DOMAIN state) \cup (DOMAIN payload) |->
        IF k \in DOMAIN payload
        THEN IF k = "roundNumber" /\ k \in DOMAIN state
             THEN state[k] + payload[k]
             ELSE payload[k]
        ELSE state[k]]

\* { ...state, ...action.payload }
hydrate(state, payload) ==
    [k \in (DOMAIN state) \cup (DOMAIN payload) |->
        IF k \in DOMAIN payload THEN payload[k] ELSE state[k]]

----------------------------------------------------------------------------
(* localStorage item and JSON *)

NoItem == [present |-> FALSE, text |-> <<>>]

\* JSON.stringify leaving the answerHistory property out
JSONstringify_omitsHistory(obj) ==
    LET keys == SelectSeq(GameStateKeys,
                    LAMBDA k : k \in DOMAIN obj /\ k # "answerHistory")
    IN [i \in 1..Len(keys) |-> <<keys[i], obj[keys[i]]>>]

\* JSON.stringify of an object: its own properties, in key order
JSONstringify(obj) ==
    LET keys == SelectSeq(GameStateKeys, LAMBDA k : k \in DOMAIN obj)
    IN [i \in 1..Len(keys) |-> <<keys[i], obj[keys[i]]>>]

\* JSON.parse of a stringified object
JSONparse(text) ==
    [k \in {text[i][1] : i \in 1..Len(text)} |->
        LET i == CHOOSE j \in 1..Len(text) :
                    /\ text[j][1] = k
                    /\ \A m \in (j + 1)..Len(text) : text[m][1] # k
        IN text[i][2]]

\* the empty string, and a text cut off inside its first property
EmptyItem == [present |-> TRUE, text |-> <<>>]
TruncatedItem == [present |-> TRUE, text |-> <<<<"teams">>>>]

\* JSON.parse returns for this text (otherwise it throws a SyntaxError)
Deserializable(text) == \A i \in 1..Len(text) : Len(text[i]) = 2

\* localStorage.setItem('gameState', JSON.stringify(state))
setItem(state) == [present |-> TRUE, text |-> JSONstringify(state)]

----------------------------------------------------------------------------
(* Example repository (lib/examples): getRandomExampleByPatternCount *)

\* the filter without the exclusion of used ids
AvailableExamples_noExclusion(cat, requiredPatternCount, categoryFilter, excludeIds) ==
    {e \in cat :
        /\ Len(e.solutionPatterns) = requiredPatternCount
        /\ (categoryFilter = Null \/ e.category = categoryFilter[1])}

\* the entries left after filtering by pattern count, category and exclusion
AvailableExamples(cat, requiredPatternCount, categoryFilter, excludeIds) ==
    {e \in cat :
        /\ Len(e.solutionPatterns) = requiredPatternCount
        /\ (categoryFilter = Null \/ e.category = categoryFilter[1])
        /\ e.id \notin excludeIds}

\* the values the random choice can return: null when nothing is left
getRandomExampleByPatternCount(cat, requiredPatternCount, categoryFilter, excludeIds) ==
    LET available == AvailableExamples(cat, requiredPatternCount,
                                       categoryFilter, excludeIds)
    IN IF available = {} THEN {Null} ELSE {Some(e) : e \in available}

----------------------------------------------------------------------------
(* Initial states *)

InitWindows ==
    /\ now = Epoch
    /\ catalog = Catalog
    /\ homeTeams = Null
    /\ teamsItem = Null
    /\ game = initialState
    /\ ctlPc = "idle"
    /\ slot = NoItem
    /\ vMounted = FALSE
    /\ vPc = "idle"
    /\ vDepth = 0
    /\ vState = Null
    /\ vGame = initialState
    /\ events = {}
    /\ setupTeams = <<>>
    /\ reloads = 0

InitNoCall ==
    /\ argCount = 1
    /\ argCategory = Null
    /\ argExclude = {}
    /\ selResult = Null
    /\ selDone = FALSE

Init == InitWindows /\ InitNoCall /\ dispatched = 0

----------------------------------------------------------------------------
(* Store: reducer, then the syncWithLocalStorage middleware *)

\* setItem in one window queues a 'storage' event in every other open
\* window of the origin, when the stored value changes.  Home is always
\* open; the viewer is open once it is mounted.
storageEvent(window, open, old, new) ==
    IF open /\ new # old THEN events \cup {window} ELSE events

\* control window: next(action); localStorage.setItem; dispatchEvent.
\* No listener for 'gameStateChanged' is installed in the control window.
syncWithLocalStorage(result) ==
    /\ game' = result
    /\ slot' = setItem(result)
    /\ events' = storageEvent("viewer", vMounted, slot, slot')

Tick ==
    /\ now < Epoch + MaxTicks * ClockStep
    /\ now' = now + ClockStep
    /\ UNCHANGED <<catalog, reloads, setupTeams, ctlVars, slot, viewerVars, sideVars, events>>

----------------------------------------------------------------------------
(* Control window: Home and RoundController *)

mounted == homeTeams # Null

\* Home.handleStart, called by TeamSetup.handleStart with the teams entered
handleStart(k) ==
    /\ ctlPc = "idle"
    /\ homeTeams = Null
    /\ homeTeams' = Some(TeamList(k))
    /\ teamsItem' = Some(TeamList(k))
    /\ ctlPc' = "effect"
    /\ UNCHANGED <<now, catalog, reloads, setupTeams, game, slot, viewerVars, sideVars, events>>

\* useEffect(() => dispatch(setTeams(teams)), [teams]), run after the handler
setTeamsEffect ==
    /\ ctlPc = "effect"
    /\ syncWithLocalStorage(setTeams(game, homeTeams[1]))
    /\ ctlPc' = "idle"
    /\ UNCHANGED <<now, catalog, reloads, setupTeams, homeTeams, teamsItem, viewerVars, sideVars>>

\* first dispatch of handleCategorySelect
handleCategorySelect(category) ==
    /\ ctlPc = "idle"
    /\ mounted
    /\ game.currentExample = Null
    /\ syncWithLocalStorage(setSelectedCategory(game, Some(category)))
    /\ ctlPc' = "category"
    /\ UNCHANGED <<now, catalog, reloads, setupTeams, homeTeams, teamsItem, viewerVars, sideVars>>

\* second dispatch of handleCategorySelect
handleCategorySelectReset ==
    /\ ctlPc = "category"
    /\ syncWithLocalStorage(setSelectedPatternCount(game, Null))
    /\ ctlPc' = "idle"
    /\ UNCHANGED <<now, catalog, reloads, setupTeams, homeTeams, teamsItem, viewerVars, sideVars>>

handlePatternCountSelect(count) ==
    /\ ctlPc = "idle"
    /\ mounted
    /\ game.currentExample = Null
    /\ TruthyString(game.selectedCategory)
    /\ syncWithLocalStorage(setSelectedPatternCount(game, Some(count)))
    /\ UNCHANGED <<now, catalog, reloads, setupTeams, homeTeams, teamsItem, ctlPc, viewerVars, sideVars>>

\* the set built from all ids but the last one pushed
usedIdsSet_missesLast(state) ==
    {state.usedExampleIds[i] : i \in 1..(Len(state.usedExampleIds) - 1)}

\* the set built by new Set(usedExampleIds)
usedIdsSet(state) ==
    {state.usedExampleIds[i] : i \in 1..Len(state.usedExampleIds)}

categoryFilterOf(state) ==
    IF state.selectedCategory[1] = "all" THEN Null ELSE state.selectedCategory

\* what handleShowExample hands to setCurrentExample: null when it returns
\* early or when the selection finds nothing
showExampleResult(state) ==
    IF ~TruthyString(state.selectedCategory)
          \/ ~TruthyNumber(state.selectedPatternCount)
    THEN {Null}
    ELSE getRandomExampleByPatternCount(catalog,
             state.selectedPatternCount[1], categoryFilterOf(state),
             usedIdsSet(state))

\* handleShowExample advancing the round when nothing is found
handleShowExample_advancesOnNull ==
    /\ ctlPc = "idle"
    /\ mounted
    /\ game.currentExample = Null
    /\ TruthyString(game.selectedCategory)
    /\ TruthyNumber(game.selectedPatternCount)
    /\ \E example \in showExampleResult(game) :
          IF example # Null
          THEN /\ syncWithLocalStorage(setCurrentExample(game, example, now))
               /\ UNCHANGED ctlPc
          ELSE /\ syncWithLocalStorage(nextRound(game))
               /\ ctlPc' = "alert"
    /\ UNCHANGED <<now, catalog, reloads, setupTeams, homeTeams, teamsItem, viewerVars, sideVars>>

\* the button is rendered once a category and a count are selected
handleShowExample ==
    /\ ctlPc = "idle"
    /\ mounted
    /\ game.currentExample = Null
    /\ TruthyString(game.selectedCategory)
    /\ TruthyNumber(game.selectedPatternCount)
    /\ \E example \in showExampleResult(game) :
          IF example # Null
          THEN /\ syncWithLocalStorage(setCurrentExample(game, example, now))
               /\ UNCHANGED ctlPc
          ELSE /\ ctlPc' = "alert"
               /\ UNCHANGED <<game, slot, events>>
    /\ UNCHANGED <<now, catalog, reloads, setupTeams, homeTeams, teamsItem, viewerVars, sideVars>>

\* the operator closes the blocking alert()
dismissAlert ==
    /\ ctlPc = "alert"
    /\ ctlPc' = "idle"
    /\ UNCHANGED <<now, catalog, reloads, setupTeams, homeTeams, teamsItem, game, slot,
                   viewerVars, sideVars, events>>

handleRevealSolution ==
    /\ ctlPc = "idle"
    /\ mounted
    /\ game.currentExample # Null
    /\ ~game.solutionRevealed
    /\ syncWithLocalStorage(revealSolution(game))
    /\ UNCHANGED <<now, catalog, reloads, setupTeams, homeTeams, teamsItem, ctlPc, viewerVars, sideVars>>

\* the Home list updated with two points for the awarded team
updatedTeams_addsTwo(teams, teamId) ==
    [i \in 1..Len(teams) |->
        IF teams[i].id = teamId
        THEN [teams[i] EXCEPT !.score = @ + 2]
        ELSE teams[i]]

\* teams.map(team => team.id === teamId ? {...team, score: score + 1} : team)
updatedTeams(teams, teamId) ==
    [i \in 1..Len(teams) |->
        IF teams[i].id = teamId
        THEN [teams[i] EXCEPT !.score = @ + 1]
        ELSE teams[i]]

\* handleAwardPoint with the award buttons rendered before the reveal
handleAwardPoint_beforeReveal(teamId) ==
    /\ ctlPc = "idle"
    /\ mounted
    /\ game.currentExample # Null
    /\ game.roundNumber < MaxRound
    /\ \E i \in 1..Len(homeTeams[1]) : homeTeams[1][i].id = teamId
    /\ syncWithLocalStorage(awardPoint(game, teamId, now))
    /\ homeTeams' = Some(updatedTeams(homeTeams[1], teamId))
    /\ teamsItem' = Some(updatedTeams(homeTeams[1], teamId))
    /\ ctlPc' = "award"
    /\ UNCHANGED <<now, catalog, reloads, setupTeams, viewerVars, sideVars>>

\* handleAwardPoint without the handleNextRound() call at its end
handleAwardPoint_noNextRound(teamId) ==
    /\ ctlPc = "idle"
    /\ mounted
    /\ game.currentExample # Null
    /\ game.solutionRevealed
    /\ game.roundNumber < MaxRound
    /\ \E i \in 1..Len(homeTeams[1]) : homeTeams[1][i].id = teamId
    /\ syncWithLocalStorage(awardPoint(game, teamId, now))
    /\ homeTeams' = Some(updatedTeams(homeTeams[1], teamId))
    /\ teamsItem' = Some(updatedTeams(homeTeams[1], teamId))
    /\ ctlPc' = "effect"
    /\ UNCHANGED <<now, catalog, reloads, setupTeams, viewerVars, sideVars>>

\* handleAwardPoint up to onUpdateTeams (Home.handleUpdateTeams)
handleAwardPoint(teamId) ==
    /\ ctlPc = "idle"
    /\ mounted
    /\ game.currentExample # Null
    /\ game.solutionRevealed
    /\ game.roundNumber < MaxRound
    /\ \E i \in 1..Len(homeTeams[1]) : homeTeams[1][i].id = teamId
    /\ syncWithLocalStorage(awardPoint(game, teamId, now))
    /\ homeTeams' = Some(updatedTeams(homeTeams[1], teamId))
    /\ teamsItem' = Some(updatedTeams(homeTeams[1], teamId))
    /\ ctlPc' = "award"
    /\ UNCHANGED <<now, catalog, reloads, setupTeams, viewerVars, sideVars>>

\* the handleNextRound() call that ends handleAwardPoint
handleAwardPointNextRound ==
    /\ ctlPc = "award"
    /\ syncWithLocalStorage(nextRound(game))
    /\ ctlPc' = "effect"
    /\ UNCHANGED <<now, catalog, reloads, setupTeams, homeTeams, teamsItem, viewerVars, sideVars>>

\* the skip button
handleNextRound ==
    /\ ctlPc = "idle"
    /\ mounted
    /\ game.currentExample # Null
    /\ game.solutionRevealed
    /\ game.roundNumber < MaxRound
    /\ syncWithLocalStorage(nextRound(game))
    /\ UNCHANGED <<now, catalog, reloads, setupTeams, homeTeams, teamsItem, ctlPc, viewerVars, sideVars>>

----------------------------------------------------------------------------
(* Viewer window: MatchViewer sync effect *)

\* the effect runs on mount and calls syncFromLocalStorage() at once
viewerMount ==
    /\ ~vMounted
    /\ vMounted' = TRUE
    /\ vPc' = "sync"
    /\ vDepth' = 1
    /\ UNCHANGED <<now, catalog, reloads, setupTeams, ctlVars, slot, vState, vGame, sideVars, events>>

\* the interval still running after the cleanup
pollTick_notCleared ==
    /\ vPc = "idle"
    /\ vPc' = "sync"
    /\ vDepth' = 1
    /\ UNCHANGED <<now, catalog, reloads, setupTeams, ctlVars, slot, vMounted, vState, vGame, sideVars,
                   events>>

\* setInterval(syncFromLocalStorage, 500)
pollTick ==
    /\ vMounted
    /\ vPc = "idle"
    /\ vPc' = "sync"
    /\ vDepth' = 1
    /\ UNCHANGED <<now, catalog, reloads, setupTeams, ctlVars, slot, vMounted, vState, vGame, sideVars,
                   events>>

\* the effect's cleanup, on unmount: both listeners removed, interval cleared
viewerUnmount ==
    /\ vMounted
    /\ vPc = "idle"
    /\ vMounted' = FALSE
    /\ events' = events \ {"viewer"}
    /\ UNCHANGED <<now, catalog, reloads, setupTeams, ctlVars, slot, vPc, vDepth, vState,
                   vGame, sideVars>>

\* syncFromLocalStorage resetting the store when the slot cannot be read
syncRead_resetsOnFailure ==
    /\ vPc = "sync"
    /\ IF slot.present /\ slot.text # <<>> /\ Deserializable(slot.text)
       THEN /\ vState' = Some(JSONparse(slot.text))
            /\ vPc' = "dispatch"
            /\ UNCHANGED <<vDepth, vGame>>
       ELSE /\ vPc' = "idle"
            /\ vDepth' = 0
            /\ vGame' = initialState
            /\ UNCHANGED vState
    /\ UNCHANGED <<now, catalog, reloads, setupTeams, ctlVars, slot, vMounted, sideVars, events>>

\* syncFromLocalStorage: getItem, if (savedState), try JSON.parse.  A missing
\* item or an empty string skips the block; a SyntaxError is caught and
\* logged.
syncRead ==
    /\ vPc = "sync"
    /\ IF slot.present /\ slot.text # <<>> /\ Deserializable(slot.text)
       THEN /\ vState' = Some(JSONparse(slot.text))
            /\ vPc' = "dispatch"
            /\ UNCHANGED <<vDepth, vGame>>
       ELSE /\ vPc' = "idle"
            /\ vDepth' = 0
            /\ UNCHANGED <<vState, vGame>>
    /\ UNCHANGED <<now, catalog, reloads, setupTeams, ctlVars, slot, vMounted, sideVars, events>>

\* syncFromLocalStorage: dispatch(hydrate(state)) through the viewer's store.
\* The middleware writes the viewer's state to the slot and fires
\* 'gameStateChanged' in the viewer window, whose listener is
\* syncFromLocalStorage itself: a nested call, until the stack is exhausted
\* and the RangeError is caught by the innermost try block.
syncHydrate ==
    /\ vPc = "dispatch"
    /\ vGame' = hydrate(vGame, vState[1])
    /\ slot' = setItem(vGame')
    /\ events' = storageEvent("control", TRUE, slot, slot')
    /\ vState' = Null
    /\ IF vDepth < StackLimit
       THEN /\ vPc' = "sync"
            /\ vDepth' = vDepth + 1
       ELSE /\ vPc' = "idle"
            /\ vDepth' = 0
    /\ UNCHANGED <<now, catalog, reloads, setupTeams, ctlVars, vMounted, sideVars>>

\* the viewer's 'storage' listener: handleStorageChange, e.key 'gameState'.
\* Events for other keys return at once and are not queued here.
handleStorageChange ==
    /\ "viewer" \in events
    /\ vMounted
    /\ vPc = "idle"
    /\ events' = events \ {"viewer"}
    /\ vPc' = "sync"
    /\ vDepth' = 1
    /\ UNCHANGED <<now, catalog, reloads, setupTeams, ctlVars, slot, vMounted, vState, vGame,
                   sideVars>>

\* the control window reading the slot and hydrating on a 'storage' event
storageEventHome_hydrates ==
    /\ "control" \in events
    /\ ctlPc = "idle"
    /\ events' = events \ {"control"}
    /\ game' = IF slot.present /\ slot.text # <<>> /\ Deserializable(slot.text)
               THEN hydrate(game, JSONparse(slot.text))
               ELSE game
    /\ UNCHANGED <<now, catalog, reloads, setupTeams, homeTeams, teamsItem, ctlPc, slot, viewerVars,
                   sideVars>>

\* the 'storage' event in the control window: Home and RoundController
\* install no listener, the event is dropped
storageEventHome ==
    /\ "control" \in events
    /\ ctlPc = "idle"
    /\ events' = events \ {"control"}
    /\ UNCHANGED <<now, catalog, reloads, setupTeams, ctlVars, slot, viewerVars, sideVars>>

----------------------------------------------------------------------------
(* The control window: Home, RoundController and the store.  The control   *)
(* window never reads the 'gameState' slot, so its game state does not     *)
(* depend on the viewer.                                                    *)

Next ==
    \/ Tick
    \/ \E k \in 1..MaxTeams : handleStart(k)
    \/ setTeamsEffect
    \/ \E category \in CategoryChoices : handleCategorySelect(category)
    \/ handleCategorySelectReset
    \/ \E count \in PatternCounts : handlePatternCountSelect(count)
    \/ handleShowExample
    \/ dismissAlert
    \/ handleRevealSolution
    \/ \E teamId \in 1..MaxTeams : handleAwardPoint(teamId)
    \/ handleAwardPointNextRound
    \/ handleNextRound

Spec == Init /\ [][Next]_vars

----------------------------------------------------------------------------
(* The control window and the viewer window side by side.  The operator    *)
(* clicks the buttons of SyncCategoryInputs and SyncCountInputs.            *)

SyncCategoryInputs == {"creational"}
SyncCountInputs == {1}

NextSync ==
    \/ \E k \in 1..MaxTeams : handleStart(k)
    \/ setTeamsEffect
    \/ \E category \in SyncCategoryInputs : handleCategorySelect(category)
    \/ handleCategorySelectReset
    \/ \E count \in SyncCountInputs : handlePatternCountSelect(count)
    \/ handleShowExample
    \/ handleRevealSolution
    \/ \E teamId \in 1..MaxTeams : handleAwardPoint(teamId)
    \/ handleAwardPointNextRound
    \/ handleNextRound
    \/ viewerMount
    \/ pollTick
    \/ handleStorageChange
    \/ storageEventHome
    \/ syncRead
    \/ syncHydrate

SpecSync == Init /\ [][NextSync]_vars

----------------------------------------------------------------------------
(* The control window across page loads.  A page load runs the modules     *)
(* anew: the store is configured with initialState and Home's `teams`      *)
(* state starts as null; localStorage is all that is carried over.         *)

\* the operator reloads the control window between two handlers
reload ==
    /\ ctlPc = "idle"
    /\ reloads < MaxReloads
    /\ reloads' = reloads + 1
    /\ homeTeams' = Null
    /\ game' = initialState
    /\ ctlPc' = "load"
    /\ UNCHANGED <<now, catalog, setupTeams, teamsItem, slot, viewerVars, sideVars, events>>

\* Home.handleReset, the operator confirming: setTeams(null),
\* removeItem('teams'), window.location.reload().  The button is rendered
\* next to the RoundController only.
handleReset ==
    /\ ctlPc = "idle"
    /\ mounted
    /\ reloads < MaxReloads
    /\ reloads' = reloads + 1
    /\ homeTeams' = Null
    /\ teamsItem' = Null
    /\ game' = initialState
    /\ ctlPc' = "load"
    /\ UNCHANGED <<now, catalog, setupTeams, slot, viewerVars, sideVars, events>>

\* Home's mount effect: getItem('teams'); if present, setTeams(JSON.parse),
\* which mounts the RoundController and runs its setTeams effect
homeMountEffect ==
    /\ ctlPc = "load"
    /\ homeTeams' = teamsItem
    /\ ctlPc' = IF teamsItem # Null THEN "effect" ELSE "idle"
    /\ UNCHANGED <<now, catalog, setupTeams, reloads, teamsItem, game, slot, viewerVars,
                   sideVars, events>>

NextReload ==
    \/ \E k \in 1..MaxTeams : handleStart(k)
    \/ setTeamsEffect
    \/ \E category \in SyncCategoryInputs : handleCategorySelect(category)
    \/ handleCategorySelectReset
    \/ \E count \in SyncCountInputs : handlePatternCountSelect(count)
    \/ handleShowExample
    \/ handleRevealSolution
    \/ \E teamId \in 1..MaxTeams : handleAwardPoint(teamId)
    \/ handleAwardPointNextRound
    \/ handleNextRound
    \/ reload
    \/ handleReset
    \/ homeMountEffect

SpecReload == Init /\ [][NextReload]_vars

----------------------------------------------------------------------------
(* The slice by itself: any sequence of up to MaxDispatches of the action  *)
(* creators it exports for the game, each with any payload, dispatched to  *)
(* the store of one window.                                                 *)

dispatch(result) ==
    /\ dispatched < MaxDispatches
    /\ syncWithLocalStorage(result)
    /\ dispatched' = dispatched + 1
    /\ UNCHANGED <<now, catalog, reloads, setupTeams, homeTeams, teamsItem, ctlPc, viewerVars,
                   selVars>>

TeamsPayloads == {TeamList(k) : k \in 0..MaxTeams}
ExamplePayloads == {Null} \cup {Some(e) : e \in Catalog}
CategoryPayloads == {Null} \cup {Some(c) : c \in CategoryChoices}
PatternCountPayloads == {Null} \cup {Some(n) : n \in PatternCounts}
TeamIdPayloads == 1..(MaxTeams + 1)

dispatchSetTeams == \E payload \in TeamsPayloads :
    dispatch(setTeams(game, payload))

dispatchSetCurrentExample == \E payload \in ExamplePayloads :
    dispatch(setCurrentExample(game, payload, now))

dispatchSetSelectedCategory == \E payload \in CategoryPayloads :
    dispatch(setSelectedCategory(game, payload))

dispatchSetSelectedPatternCount == \E payload \in PatternCountPayloads :
    dispatch(setSelectedPatternCount(game, payload))

dispatchRevealSolution == dispatch(revealSolution(game))

dispatchAwardPoint == \E payload \in TeamIdPayloads :
    dispatch(awardPoint(game, payload, now))

dispatchNextRound == dispatch(nextRound(game))

dispatchTogglePause == dispatch(togglePause(game))

dispatchResetGame == dispatch(resetGame(game))

NextSlice ==
    \/ Tick
    \/ dispatchSetTeams
    \/ dispatchSetCurrentExample
    \/ dispatchSetSelectedCategory
    \/ dispatchSetSelectedPatternCount
    \/ dispatchRevealSolution
    \/ dispatchAwardPoint
    \/ dispatchNextRound
    \/ dispatchTogglePause
    \/ dispatchResetGame

SpecSlice == Init /\ [][NextSlice]_vars

\* the same with updateTeamScore, which the slice exports and no component
\* dispatches
PointsPayloads == {-1, 2}

dispatchUpdateTeamScore == \E teamId \in TeamIdPayloads, points \in PointsPayloads :
    dispatch(updateTeamScore(game, teamId, points))

NextExports ==
    \/ NextSlice
    \/ dispatchUpdateTeamScore

SpecExports == Init /\ [][NextExports]_vars

----------------------------------------------------------------------------
(* The example repository by itself: one call with any arguments *)

CategoryFilters == {Null} \cup {Some(c) : c \in Categories}

InitSelect ==
    /\ InitWindows
    /\ dispatched = 0
    /\ argCount \in PatternCounts
    /\ argCategory \in CategoryFilters
    /\ argExclude \in SUBSET ExampleIds
    /\ selResult = Null
    /\ selDone = FALSE

callSelect ==
    /\ ~selDone
    /\ selResult' \in getRandomExampleByPatternCount(catalog, argCount,
                                                      argCategory, argExclude)
    /\ selDone' = TRUE
    /\ UNCHANGED <<now, catalog, reloads, setupTeams, ctlVars, slot, viewerVars, argCount,
                   argCategory, argExclude, dispatched, events>>

NextSelect == callSelect

SpecSelect == InitSelect /\ [][NextSelect]_vars

----------------------------------------------------------------------------
(* The hydrate reducer by itself: a window in any of SampleStates receives *)
(* a full or partial snapshot of any of them, up to MaxHydrates times.      *)

MaxHydrates == 2

SampleTeams == setTeams(initialState, TeamList(1))
SampleShown ==
    setCurrentExample(setSelectedPatternCount(
        setSelectedCategory(SampleTeams, Some("creational")), Some(1)),
        Some(PatternExample(1)), Epoch)
SampleRevealed == revealSolution(SampleShown)
SampleAwarded == awardPoint(SampleRevealed, 1, Epoch + ClockStep)
SampleAdvanced == nextRound(SampleAwarded)

SampleStates ==
    {initialState, SampleTeams, SampleShown, SampleRevealed, SampleAwarded,
     SampleAdvanced}

\* the sets of fields a snapshot carries: every field, or some of four
SnapshotKeySets ==
    {{GameStateKeys[i] : i \in 1..Len(GameStateKeys)}}
        \cup SUBSET {"teams", "roundNumber", "currentExample",
                     "solutionRevealed"}

Snapshots == {[k \in keys |-> st[k]] : keys \in SnapshotKeySets, st \in SampleStates}

InitHydrate ==
    /\ now = Epoch
    /\ catalog = Catalog
    /\ homeTeams = Null
    /\ teamsItem = Null
    /\ game = initialState
    /\ ctlPc = "idle"
    /\ slot = NoItem
    /\ vMounted = TRUE
    /\ vPc = "idle"
    /\ vDepth = 0
    /\ vState \in {Some(p) : p \in Snapshots}
    /\ vGame \in SampleStates
    /\ events = {}
    /\ setupTeams = <<>>
    /\ reloads = 0
    /\ InitNoCall
    /\ dispatched = 0

\* dispatch(hydrate(state)) in the window whose store holds vGame
dispatchHydrate ==
    /\ dispatched < MaxHydrates
    /\ vGame' = hydrate(vGame, vState[1])
    /\ slot' = setItem(vGame')
    /\ events' = storageEvent("control", TRUE, slot, slot')
    /\ dispatched' = dispatched + 1
    /\ UNCHANGED <<now, catalog, reloads, setupTeams, ctlVars, vMounted, vPc, vDepth, vState,
                   selVars>>

NextHydrate == dispatchHydrate

SpecHydrate == InitHydrate /\ [][NextHydrate]_vars

----------------------------------------------------------------------------
(* The viewer window by itself.  The 'gameState' item is what any page of  *)
(* the origin, or the user, left in localStorage: a serialized game state, *)
(* nothing, an empty string or a text that is not JSON.                     *)

UnreadableItems == {NoItem, EmptyItem, TruncatedItem}

SlotInputs == UnreadableItems \cup {setItem(st) : st \in SampleStates}

\* localStorage.setItem / removeItem('gameState') outside the two windows
foreignWrite ==
    /\ slot' \in SlotInputs
    /\ events' = storageEvent("viewer", vMounted, slot, slot')
    /\ UNCHANGED <<now, catalog, reloads, setupTeams, ctlVars, viewerVars, sideVars>>

NextViewer ==
    \/ foreignWrite
    \/ viewerMount
    \/ viewerUnmount
    \/ pollTick
    \/ handleStorageChange
    \/ syncRead
    \/ syncHydrate

SpecViewer == Init /\ [][NextViewer]_vars

----------------------------------------------------------------------------
(* The setup form: TeamSetup, shown by Home while `teams` is null *)

MaxSetupTeams == 3   \* teams the operator keeps in the form at a time
MaxSetupTicks == 2   \* clock ticks while the form is shown

TEAM_COLORS ==
    <<"#4a90e2", "#e74c3c", "#2ecc71", "#f39c12", "#9b59b6", "#1abc9c",
      "#34495e", "#e91e63">>

\* what the operator types as a team name
NameInputs == {"A", " A", "B", " "}

\* String.prototype.trim on the inputs
trim(name) ==
    CASE name = " A" -> "A"
      [] name = " " -> ""
      [] OTHER -> name

\* the ids `team-${Date.now()}` of the teams added while the form is shown
SetupTeamIds == {Epoch + k * ClockStep : k \in 0..MaxSetupTicks}

TickSetup ==
    /\ homeTeams = Null
    /\ now < Epoch + MaxSetupTicks * ClockStep
    /\ now' = now + ClockStep
    /\ UNCHANGED <<catalog, reloads, setupTeams, ctlVars, slot, viewerVars, sideVars,
                   events>>

\* the form's submit handler; the button is disabled for a blank name
handleAddTeam(newTeamName) ==
    /\ ctlPc = "idle"
    /\ homeTeams = Null
    /\ Len(setupTeams) < MaxSetupTeams
    /\ trim(newTeamName) # ""
    /\ Len(setupTeams) < Len(TEAM_COLORS)
    /\ setupTeams' = Append(setupTeams,
            [id |-> now, name |-> trim(newTeamName), score |-> 0,
             color |-> TEAM_COLORS[Len(setupTeams) + 1]])
    /\ UNCHANGED <<now, catalog, reloads, ctlVars, slot, viewerVars, sideVars, events>>

handleRemoveTeam(teamId) ==
    /\ ctlPc = "idle"
    /\ homeTeams = Null
    /\ \E i \in 1..Len(setupTeams) : setupTeams[i].id = teamId
    /\ setupTeams' = SelectSeq(setupTeams, LAMBDA t : t.id # teamId)
    /\ UNCHANGED <<now, catalog, reloads, ctlVars, slot, viewerVars, sideVars, events>>

\* TeamSetup.handleStart: onStart(teams) is Home.handleStart
setupHandleStart ==
    /\ ctlPc = "idle"
    /\ homeTeams = Null
    /\ Len(setupTeams) > 0
    /\ homeTeams' = Some(setupTeams)
    /\ teamsItem' = Some(setupTeams)
    /\ ctlPc' = "effect"
    /\ UNCHANGED <<now, catalog, reloads, setupTeams, game, slot, viewerVars, sideVars,
                   events>>

NextSetup ==
    \/ TickSetup
    \/ \E newTeamName \in NameInputs : handleAddTeam(newTeamName)
    \/ \E teamId \in SetupTeamIds : handleRemoveTeam(teamId)
    \/ setupHandleStart
    \/ setTeamsEffect

SpecSetup == Init /\ [][NextSetup]_vars

----------------------------------------------------------------------------
(* Properties *)

Last(seq) == seq[Len(seq)]

IdsOf(seq) == {seq[i] : i \in 1..Len(seq)}

\* C1: whatever sequence of transitions is dispatched, solutionRevealed is
\* false in every state in which currentExample is null.
C1_RevealedOnlyWithExample ==
    game.currentExample = Null => ~game.solutionRevealed

\* C2: in every state reached by any sequence of transitions, roundStartTime
\* is non-null exactly when currentExample is non-null.
C2_StartTimeIffExample ==
    (game.roundStartTime # Null) <=> (game.currentExample # Null)

\* an example is shown and its round has a start time
C2_Witness ==
    /\ game.currentExample # Null
    /\ game.roundStartTime # Null
    /\ game.roundNumber > 1

AwardEffects(teamId) ==
    LET i == FindTeam(game.teams, teamId)
        n == Len(game.answerHistory)
    IN /\ i # 0
       /\ Len(game'.teams) = Len(game.teams)
       /\ game'.teams[i].score = game.teams[i].score + 1
       /\ \A j \in 1..Len(game.teams) :
              j # i => game'.teams[j] = game.teams[j]
       /\ Len(game'.answerHistory) = n + 1
       /\ SubSeq(game'.answerHistory, 1, n) = game.answerHistory
       /\ Last(game'.answerHistory).roundNumber = game.roundNumber
       /\ game'.roundNumber = game.roundNumber

AdvanceEffects ==
    /\ game'.teams = game.teams
    /\ game'.answerHistory = game.answerHistory
    /\ Last(game'.answerHistory).roundNumber = game.roundNumber
    /\ game'.roundNumber = game.roundNumber + 1
    /\ game'.currentExample = Null

\* C3: in the solution-revealed phase, awardPoint(T.id) followed by
\* nextRound() adds exactly 1 to T's score, leaves the other teams alone,
\* appends one history entry carrying the round number before the advance,
\* adds 1 to roundNumber and leaves currentExample null.
C3_AwardThenAdvance ==
    [][/\ \A teamId \in 1..MaxTeams :
             handleAwardPoint(teamId) => AwardEffects(teamId)
       /\ handleAwardPointNextRound => AdvanceEffects]_vars

\* a point was awarded in round 1 and the round advanced
C3_Witness ==
    /\ ctlPc = "effect"
    /\ game.roundNumber = 2
    /\ Len(game.answerHistory) = 1
    /\ game.currentExample = Null
    /\ \E i \in 1..Len(game.teams) : game.teams[i].score = 1
    /\ \E i \in 1..Len(game.teams) : game.teams[i].score = 0

\* C4, as stated: the setSelectedCategory transition leaves
\* selectedPatternCount null, whatever it was before.
C4_CategoryClearsCount ==
    [][\A category \in CategoryChoices :
          handleCategorySelect(category)
              => game'.selectedPatternCount = Null]_vars

\* C4, amended: the setSelectedCategory transition sets the category and
\* leaves selectedPatternCount as it was; the setSelectedPatternCount(null)
\* that handleCategorySelect dispatches next clears it, so the count is null
\* when the category-select intent has completed.
C4_IntentClearsCount ==
    [][/\ \A category \in CategoryChoices :
             handleCategorySelect(category)
                 => /\ game'.selectedCategory = Some(category)
                    /\ game'.selectedPatternCount = game.selectedPatternCount
       /\ handleCategorySelectReset
             => /\ game'.selectedPatternCount = Null
                /\ game'.selectedCategory = game.selectedCategory
                /\ ctlPc' = "idle"]_vars

\* between the two dispatches the previous pattern count is still selected
C4_Witness ==
    /\ ctlPc = "category"
    /\ game.selectedCategory # Null
    /\ game.selectedPatternCount # Null

C8_UsedHoldsEveryShown ==
    [][/\ game'.currentExample # Null
             => game'.currentExample[1].id \in IdsOf(game'.usedExampleIds)
       /\ game' # initialState
             => IdsOf(game.usedExampleIds) \subseteq IdsOf(game'.usedExampleIds)
      ]_vars

\* an earlier example's id is kept while another example is current
C8_Witness ==
    /\ game.currentExample # Null
    /\ Len(game.usedExampleIds) = 2
    /\ game.usedExampleIds[1] # game.currentExample[1].id
    /\ game.usedExampleIds[2] = game.currentExample[1].id

NoDuplicates(seq) ==
    \A i, j \in 1..Len(seq) : i # j => seq[i] # seq[j]

\* C9: the example that the show-example intent sets was not in
\* usedExampleIds before, and usedExampleIds never holds an id twice.
C9_NoRepeat ==
    /\ [](NoDuplicates(game.usedExampleIds))
    /\ [][(handleShowExample /\ game'.currentExample # Null)
            => game'.currentExample[1].id \notin IdsOf(game.usedExampleIds)
         ]_vars

\* a second example is shown in the second round
C9_Witness ==
    /\ game.roundNumber = 2
    /\ Len(game.usedExampleIds) = 2
    /\ game.currentExample # Null

Matches(e) ==
    /\ Len(e.solutionPatterns) = argCount
    /\ (argCategory = Null \/ e.category = argCategory[1])
    /\ e.id \notin argExclude

\* C10: the selection returns null exactly when no catalog entry has the
\* required pattern count, the category and an id outside excludeIds;
\* otherwise it returns such an entry; the catalog and excludeIds stay as
\* they were.
C10_SelectExample ==
    /\ [](selDone =>
            /\ (selResult = Null) <=> ~(\E e \in Catalog : Matches(e))
            /\ selResult # Null =>
                  selResult[1] \in Catalog /\ Matches(selResult[1]))
    /\ [][catalog' = catalog /\ argExclude' = argExclude]_vars

\* every entry of the requested kind is excluded and the call returns null
C10_Witness ==
    /\ selDone
    /\ selResult = Null
    /\ \E e \in Catalog :
          /\ Len(e.solutionPatterns) = argCount
          /\ (argCategory = Null \/ e.category = argCategory[1])
          /\ e.id \in argExclude

ParsedSlot == JSONparse(slot.text)

\* the control window has applied awardPoint and nextRound for the last
\* round and is between two handlers
AwardedAndAdvanced ==
    /\ ctlPc = "idle"
    /\ game.answerHistory # <<>>
    /\ Last(game.answerHistory).roundNumber = game.roundNumber - 1

\* C5: once the control window has applied awardPoint and nextRound and
\* writes no more, what a poll tick of the viewer reads and hydrates is the
\* control window's game state, field by field.
C5_PollCatchesUp ==
    [][/\ (syncRead /\ vDepth = 1 /\ AwardedAndAdvanced)
             => vState' = Some(game)
       /\ syncHydrate => vGame' = vState[1]]_vars

\* C6: while the writing window is between two handlers, the slot it has
\* written holds the serialization of its in-memory game state.
C6_SlotMirrorsIdleWriter ==
    (ctlPc = "idle" /\ slot.present)
        => /\ slot.text = JSONstringify(game)
           /\ ParsedSlot = game

C12_HydrateIdempotent ==
    [][(dispatched >= 1 /\ dispatched' = dispatched + 1)
            => vGame' = vGame]_vars

\* a partial snapshot was merged twice into a state that differs from it
C12_Witness ==
    /\ dispatched = 2
    /\ DOMAIN vState[1] = {"roundNumber"}
    /\ vGame.roundNumber = 2
    /\ vGame.currentExample # Null

C14_UnreadableSlotSkipped ==
    [][(vPc = "sync" /\ vPc' # "sync" /\ slot \in UnreadableItems)
            => (vGame' = vGame /\ vPc' = "idle" /\ slot' = slot)]_vars

\* the viewer had hydrated a game; the slot then became unreadable and the
\* storage event of that change has been handled
C14_Witness ==
    /\ vMounted
    /\ vPc = "idle"
    /\ "viewer" \notin events
    /\ slot = TruncatedItem
    /\ vGame = SampleRevealed

ScoreChanges ==
    {<<i, j>> \in (1..Len(game.teams)) \X (1..Len(game'.teams)) :
        /\ game.teams[i].id = game'.teams[j].id
        /\ game.teams[i].score # game'.teams[j].score}

C17_HistoryAppendOnly ==
    /\ [](\A i, j \in 1..Len(game.answerHistory) :
            i # j => game.answerHistory[i].roundNumber
                        # game.answerHistory[j].roundNumber)
    /\ [][/\ Len(game'.answerHistory) >= Len(game.answerHistory)
          /\ \A i \in 1..Len(game.answerHistory) :
                game'.answerHistory[i] = game.answerHistory[i]
          /\ Len(game'.answerHistory) # Len(game.answerHistory)
               => /\ Len(game'.answerHistory) = Len(game.answerHistory) + 1
                  /\ \E teamId \in 1..MaxTeams :
                        game' = awardPoint(game, teamId, now)
         ]_vars

\* two rounds were awarded
C17_Witness ==
    /\ Len(game.answerHistory) = 2
    /\ game.answerHistory[1].roundNumber = 1
    /\ game.answerHistory[2].roundNumber = 2
    /\ game.roundNumber = 3

\* a 'storage' event is delivered in the window
StorageDelivered(window) == window \in events /\ window \notin events'

C19_TeamsWellFormed ==
    homeTeams # Null =>
        LET teams == homeTeams[1] IN
        /\ Len(teams) >= 2
        /\ Len(teams) <= 4
        /\ \A i, j \in 1..Len(teams) :
              i # j => (teams[i].name # teams[j].name
                        /\ teams[i].color # teams[j].color)

\* C20: awardPoint with an id that matches no team, or with no current
\* example, or with no round start time, returns the state it was given:
\* no score, no history entry and no other field changes.
C20_AwardGuard ==
    \A teamId \in TeamIdPayloads :
        (\/ FindTeam(game.teams, teamId) = 0
         \/ game.currentExample = Null
         \/ game.roundStartTime = Null)
            => awardPoint(game, teamId, now) = game

\* a team is known, no example was shown, and after MaxDispatches actions,
\* awardPoint among those possible, no score and no history entry exists
C20_Witness ==
    /\ dispatched = MaxDispatches
    /\ FindTeam(game.teams, 1) # 0
    /\ game.currentExample = Null
    /\ game.roundStartTime = Null
    /\ game.teams[1].score = 0
    /\ game.answerHistory = <<>>

C22_NextRoundFrame ==
    LET after == nextRound(game) IN
    /\ after.currentExample = Null
    /\ after.selectedCategory = Null
    /\ after.selectedPatternCount = Null
    /\ after.solutionRevealed = FALSE
    /\ after.roundStartTime = Null
    /\ after.isPaused = FALSE
    /\ after.teams = game.teams
    /\ after.usedExampleIds = game.usedExampleIds
    /\ after.answerHistory = game.answerHistory

\* nextRound is about to be applied to a paused round with a category and
\* an example
C22_Witness ==
    /\ dispatched < MaxDispatches
    /\ game.isPaused
    /\ game.selectedCategory # Null
    /\ game.currentExample # Null
    /\ game.usedExampleIds # <<>>

\* C23: a hydrate step gives every field of the snapshot the snapshot's
\* value and keeps every other field, whatever state it is applied to.
C23_HydrateMerges ==
    [][dispatched' = dispatched + 1 =>
        /\ DOMAIN vGame' = DOMAIN vGame \cup DOMAIN vState[1]
        /\ \A k \in DOMAIN vGame' :
              vGame'[k] = IF k \in DOMAIN vState[1]
                          THEN vState[1][k] ELSE vGame[k]]_vars

\* a snapshot with no teams and no example was merged into a revealed
\* round: the reveal flag and the start time are kept
C23_Witness ==
    /\ dispatched = 1
    /\ DOMAIN vState[1] = {"teams", "currentExample"}
    /\ vGame.teams = <<>>
    /\ vGame.currentExample = Null
    /\ vGame.solutionRevealed
    /\ vGame.roundStartTime # Null

\* C24: while the viewer is torn down, no storage event and no poll tick
\* starts a sync: the viewer reads nothing, dispatches nothing and leaves
\* the slot alone.
C24_NoSyncAfterTeardown ==
    [][(~vMounted /\ ~vMounted')
        => /\ vPc' = "idle"
           /\ vGame' = vGame
           /\ vState' = vState
           /\ "viewer" \notin events']_vars

\* the viewer was torn down with a game in its store, and the slot has
\* been replaced by another game since
C24_Witness ==
    /\ ~vMounted
    /\ vGame = SampleShown
    /\ slot = setItem(SampleAdvanced)

\* C25: handling one synchronization trigger in the viewer ends after one
\* hydrate: the dispatch of hydrate returns to the idle viewer, and no
\* second call of syncFromLocalStorage is nested in the first.
C25_OneHydratePerTrigger ==
    /\ [](vDepth <= 1)
    /\ [][(vPc = "dispatch" /\ vPc' # "dispatch") => vPc' = "idle"]_vars

\* C26: the viewer never changes the content of the slot: no step of its
\* sync (read, hydrate, write-back of its middleware) alters it, so the
\* slot holds what the control window's latest transition wrote.
C26_ViewerLeavesSlot ==
    [][(vPc # "idle" /\ vPc' # vPc) => slot' = slot]_vars

\* a point has been awarded for the round the state is still in
HalfAwarded(state) ==
    /\ state.answerHistory # <<>>
    /\ Last(state.answerHistory).roundNumber = state.roundNumber
    /\ state.currentExample # Null

\* C27: the viewer never reads a snapshot of a half-done intent: none in
\* which a point is awarded for the round that is still current, and none
\* written by a category selection before its reset of the pattern count.
C27_NoHalfDoneSnapshot ==
    /\ [](vState # Null => ~HalfAwarded(vState[1]))
    /\ [][(vPc = "sync" /\ vPc' = "dispatch" /\ ctlPc = "category")
            => vState'[1].selectedPatternCount = Null]_vars

\* C28: once the operator has confirmed the reset and the control window
\* is back at the team setup, the slot holds the initial game state (no
\* teams, round 1, no current example, empty history), which is what a
\* viewer then hydrates.
C28_ResetReachesSlot ==
    (reloads > 0 /\ ctlPc = "idle" /\ homeTeams = Null /\ slot.present)
        => slot = setItem(initialState)

\* C29: a reload of the control window keeps the game: roundNumber,
\* usedExampleIds and answerHistory are after the page load what they were
\* before it, and the team list with its scores is back in Home.
C29_ReloadKeepsGame ==
    [][/\ ((ctlPc' = "load" \/ ctlPc = "load") /\ teamsItem' = teamsItem)
            => /\ game'.roundNumber = game.roundNumber
               /\ game'.usedExampleIds = game.usedExampleIds
               /\ game'.answerHistory = game.answerHistory
       /\ (ctlPc = "load" /\ ctlPc' # "load") => homeTeams' = teamsItem]_vars

RECURSIVE SumScores(_)
SumScores(teams) ==
    IF teams = <<>> THEN 0 ELSE Head(teams).score + SumScores(Tail(teams))

\* C30: under the Round Controller's operations the team list of Home and
\* the team list of the game state agree once an award and the setTeams
\* effect after it have run: same teams, same order, same scores.  The
\* award adds exactly 1 to the awarded team's score in Home's list and
\* leaves the others, and the scores add up to the length of answerHistory.
C30_TeamListsAgree ==
    /\ []((mounted /\ ctlPc = "idle") => game.teams = homeTeams[1])
    /\ [](mounted => SumScores(homeTeams[1]) = Len(game.answerHistory))
    /\ [](ctlPc = "idle" => SumScores(game.teams) = Len(game.answerHistory))
    /\ [][\A teamId \in 1..MaxTeams :
            handleAwardPoint(teamId)
                => LET i == FindTeam(homeTeams[1], teamId)
                   IN /\ i # 0
                      /\ Len(homeTeams'[1]) = Len(homeTeams[1])
                      /\ homeTeams'[1][i].score = homeTeams[1][i].score + 1
                      /\ \A j \in 1..Len(homeTeams[1]) :
                             j # i => homeTeams'[1][j] = homeTeams[1][j]]_vars

\* two awards, one to each of two teams, and the effect after the second
\* has run
C30_Witness ==
    /\ ctlPc = "idle"
    /\ mounted
    /\ Len(game.answerHistory) = 2
    /\ Len(game.teams) = 2
    /\ game.teams[1].score = 1
    /\ game.teams[2].score = 1
    /\ homeTeams[1][2].score = 1

====
